---- MODULE Spec2Model ----
(***************************************************************************)
(* The search filesystem of pkg/fs: searchDir (the "search" root, a        *)
(* factory of result directories) and searchResultDir (a directory whose   *)
(* entries are the results of a search, cached for searchSearchInterval).  *)
(*                                                                         *)
(* Strings are sequences of one-character strings, so that filepath.Ext,   *)
(* strings.HasSuffix, strings.TrimPrefix and the [:10] slice are computed   *)
(* as the Go code computes them.  Times are integers (seconds); the zero    *)
(* time.Time is 0 and the clock starts far after it.                       *)
(***************************************************************************)
EXTENDS Integers, Sequences, FiniteSets, TLC

VARIABLES
    now,          \* the wall clock read by time.Now()
    mu,           \* searchResultDir.mu: Free, or the caller that locked it
    entsNil,      \* TRUE while searchResultDir.ents is the nil map
    ents,         \* searchResultDir.ents: name -> described blob
    modTime,      \* searchResultDir.modTime: name -> time
    lastReaddir,  \* searchResultDir.lastReaddir
    lastNames,    \* searchResultDir.lastNames
    pc,           \* per caller: position in ReadDirAll / Lookup
    op,           \* per caller: the operation in progress
    arg,          \* per caller: the name given to Lookup
    out,          \* per caller: what the operation returned
    seed,         \* per caller: what the ReadDirAll forced by Lookup returned
    nod,          \* per caller: the node Lookup has built and not yet returned
    nq,           \* per caller: client.Query calls issued by this invocation
    behind,       \* per caller: outcome of the refresh it arrived behind
    lastQ,        \* clock reading when List last decided to query
    lastQok,      \* whether that query succeeded
    pres,         \* projection loop: the search result being projected
    pidx,         \* projection loop: matches processed so far
    psnap,        \* projection loop: ents, modTime, lastNames built so far
    lastOk,       \* clock reading at the end of the last successful refresh
    foreign,      \* per caller: another caller attempted a refresh during its call
    before,       \* ents, modTime, lastReaddir, lastNames when the refresh in progress began
    rootOut       \* what the last operation on the searchDir returned

cache == <<entsNil, ents, modTime, lastReaddir, lastNames>>
callv == <<pc, op, arg, out, seed, nod, nq, behind, foreign>>
hist  == <<lastQ, lastQok, lastOk, before>>
projv == <<pres, pidx, psnap>>
vars  == <<now, mu, cache, callv, hist, projv, rootOut>>

----------------------------------------------------------------------------
(* Bounds of the model *)

MaxTime    == 25   \* the clock stops here
Step       == 5    \* seconds per tick of the clock
MaxMatches == 2    \* longest search result in the concurrent model
MaxBlobs   == 3    \* longest search result in the projection model

(* Program constants *)

searchSearchInterval == 10   \* search.go:50, in seconds
IdLen == 10                  \* searchResult.go:140, the [:10] slice

Callers == {"c1", "c2"}
Free    == "free"

----------------------------------------------------------------------------
(* Strings *)

Dot   == "."
Slash == "/"
Dash  == "-"

Empty == << >>

RECURSIVE Rep(_, _)
Rep(ch, n) == IF n = 0 THEN << >> ELSE <<ch>> \o Rep(ch, n - 1)

HasPrefix(s, p) == Len(s) >= Len(p) /\ SubSeq(s, 1, Len(p)) = p
HasSuffix(s, p) == Len(s) >= Len(p) /\ SubSeq(s, Len(s) - Len(p) + 1, Len(s)) = p
TrimPrefix(s, p) == IF HasPrefix(s, p) THEN SubSeq(s, Len(p) + 1, Len(s)) ELSE s

\* filepath.Ext: the suffix beginning at the final dot in the final
\* slash-separated element of path; empty if there is no dot.
RECURSIVE ExtFrom(_, _)
ExtFrom(path, i) ==
    IF i < 1 \/ path[i] = Slash THEN Empty
    ELSE IF path[i] = Dot THEN SubSeq(path, i, Len(path))
    ELSE ExtFrom(path, i - 1)
Ext(path) == ExtFrom(path, Len(path))

----------------------------------------------------------------------------
(* What the search backend returns: blob refs and described blobs *)

Sha1 == <<"s", "h", "a", "1">>

\* blob.Ref.String(): the hash name, a dash, the digest
RefString(br) == br.hash \o <<Dash>> \o br.digest
HashName(br)  == br.hash

NoFile == [nil |-> TRUE, FileName |-> Empty, MIMEType |-> Empty, Time |-> 0]
NoDir  == [nil |-> TRUE, FileName |-> Empty]

FileItem(d, name, mime, t) ==
    [BlobRef |-> [hash |-> Sha1, digest |-> d],
     File |-> [nil |-> FALSE, FileName |-> name, MIMEType |-> mime, Time |-> t],
     Dir |-> NoDir]
DirItem(d, name) ==
    [BlobRef |-> [hash |-> Sha1, digest |-> d],
     File |-> NoFile,
     Dir |-> [nil |-> FALSE, FileName |-> name]]
BareItem(d) ==
    [BlobRef |-> [hash |-> Sha1, digest |-> d], File |-> NoFile, Dir |-> NoDir]

DigA1 == Rep("a", IdLen) \o <<"1">>
DigA2 == Rep("a", IdLen) \o <<"2">>
DigA3 == Rep("a", IdLen) \o <<"3">>
DigB1 == Rep("b", IdLen) \o <<"1">>
DigB2 == Rep("b", IdLen) \o <<"2">>
DigC1 == Rep("c", IdLen) \o <<"1">>

NameP  == <<"p">>
NamePG == <<"p", ".", "g">>
Jpeg   == <<"i", "m", "a", "g", "e", "/", "j", "p", "e", "g">>
Text   == <<"t", "x", "t">>
DotJpg == <<".", "j", "p", "g">>

ItA == FileItem(DigA1, NameP, Jpeg, 3)     \* a jpeg named "p" with a time
ItB == FileItem(DigB1, NamePG, Text, 0)    \* "p.g", no time
ItC == DirItem(DigA2, Empty)               \* a directory without a name
ItD == FileItem(DigA3, Empty, Text, 0)     \* a nameless file, digest like ItC's
ItE == FileItem(DigB2, NameP, <<"x">> \o Jpeg, 0)  \* another jpeg named "p"
ItX == BareItem(DigC1)                     \* neither file nor directory

Items == {ItA, ItB, ItC, ItD, ItE}

\* One element of res.Blobs together with what res.Describe.Meta holds for
\* it: meta (Meta.Get(br) is not nil), permanode (meta.Permanode is not
\* nil), content (camliContent parses as a blob ref), ccNil (Meta.Get(cc) is
\* nil) and cc (the described content blob).
Match(m, p, c, n, it) ==
    [meta |-> m, permanode |-> p, content |-> c, ccNil |-> n, cc |-> it]
Good(it) == Match(TRUE, TRUE, TRUE, FALSE, it)

Matches ==
    {Good(it) : it \in Items} \cup
    { Match(FALSE, FALSE, FALSE, TRUE, ItX),   \* no meta for the blob
      Match(TRUE, FALSE, FALSE, TRUE, ItX),    \* not a permanode
      Match(TRUE, TRUE, FALSE, TRUE, ItX),     \* no camliContent
      Match(TRUE, TRUE, TRUE, TRUE, ItX),      \* content not described
      Good(ItX) }                              \* content neither file nor dir

\* The matches the backend of the concurrent model answers with
Backend == {Good(ItA), Good(ItC), Good(ItX)}

SeqsUpTo(S, n) == UNION {[1..k -> S] : k \in 0..n}

\* search.SearchResult: Describe is FALSE when res.Describe or its Meta is nil
Responses(M, n) ==
    {[Blobs |-> b, Describe |-> d] : b \in SeqsUpTo(M, n), d \in BOOLEAN}

----------------------------------------------------------------------------
(* The projection of a search result into names (ReadDirAll, lines 94-152) *)

EmptyMap == << >>
Put(f, k, v) == [x \in DOMAIN f \cup {k} |-> IF x = k THEN v ELSE f[x]]
Range(s) == {s[i] : i \in DOMAIN s}

NoSnap == [ents |-> EmptyMap, modTime |-> EmptyMap, lastNames |-> << >>]

\* Usable without the default case of lines 132-133
Usable_NoShapeCheck(describe, ri) ==
    /\ describe
    /\ ri.meta
    /\ ri.permanode
    /\ ri.content
    /\ ~ri.ccNil

\* Lines 98-134: the described content blob is usable
Usable(describe, ri) ==
    /\ describe
    /\ ri.meta
    /\ ri.permanode
    /\ ri.content
    /\ ~ri.ccNil
    /\ (~ri.cc.File.nil \/ ~ri.cc.Dir.nil)

\* Lines 124-134: the declared name
DeclaredName(ccMeta) ==
    IF ~ccMeta.File.nil THEN ccMeta.File.FileName ELSE ccMeta.Dir.FileName

\* Lines 97, 127-129: the file's time unless it is zero, else time.Now()
ModTimeOf(ccMeta, t) ==
    IF ~ccMeta.File.nil /\ ccMeta.File.Time # 0 THEN ccMeta.File.Time ELSE t

\* FallbackName without the TrimPrefix of line 140
FallbackName_NoTrim(ccMeta, name) ==
    LET ext0 == Ext(name)
        ext  == IF ext0 = Empty /\ ~ccMeta.File.nil
                    /\ HasSuffix(ccMeta.File.MIMEType, Jpeg)
                THEN DotJpg ELSE ext0
    IN  SubSeq(RefString(ccMeta.BlobRef), 1, IdLen) \o ext

\* Lines 136-140: the name derived from the blob ref
FallbackName(ccMeta, name) ==
    LET ext0 == Ext(name)
        ext  == IF ext0 = Empty /\ ~ccMeta.File.nil
                    /\ HasSuffix(ccMeta.File.MIMEType, Jpeg)
                THEN DotJpg ELSE ext0
        id   == TrimPrefix(RefString(ccMeta.BlobRef),
                           HashName(ccMeta.BlobRef) \o <<Dash>>)
    IN  SubSeq(id, 1, IdLen) \o ext

\* Lines 135-144: the name the match is recorded under
ResolvedName(e, ccMeta) ==
    LET name == DeclaredName(ccMeta)
    IN  IF name = Empty \/ name \in DOMAIN e
        THEN FallbackName(ccMeta, name)
        ELSE name

\* Lines 141-143: the fallback name is taken too
Dropped(e, ccMeta) ==
    LET name == DeclaredName(ccMeta)
    IN  /\ (name = Empty \/ name \in DOMAIN e)
        /\ FallbackName(ccMeta, name) \in DOMAIN e

\* ProjectStep without line 146: the time of the entry is not recorded
ProjectStep_NoModTime(s, describe, ri, t) ==
    IF ~Usable(describe, ri) THEN s
    ELSE IF Dropped(s.ents, ri.cc) THEN s
    ELSE LET name == ResolvedName(s.ents, ri.cc)
         IN  [ents      |-> Put(s.ents, name, ri.cc),
              modTime   |-> s.modTime,
              lastNames |-> Append(s.lastNames, name)]

\* ProjectStep without lines 141-143: a taken fallback name is bound again
ProjectStep_Overwrite(s, describe, ri, t) ==
    IF ~Usable(describe, ri) THEN s
    ELSE LET name == ResolvedName(s.ents, ri.cc)
         IN  [ents      |-> Put(s.ents, name, ri.cc),
              modTime   |-> Put(s.modTime, name, ModTimeOf(ri.cc, t)),
              lastNames |-> Append(s.lastNames, name)]

\* One iteration of the loop of lines 95-152
ProjectStep(s, describe, ri, t) ==
    IF ~Usable(describe, ri) THEN s
    ELSE IF Dropped(s.ents, ri.cc) THEN s
    ELSE LET name == ResolvedName(s.ents, ri.cc)
         IN  [ents      |-> Put(s.ents, name, ri.cc),
              modTime   |-> Put(s.modTime, name, ModTimeOf(ri.cc, t)),
              lastNames |-> Append(s.lastNames, name)]

RECURSIVE ProjectFrom(_, _, _, _)
ProjectFrom(s, res, i, t) ==
    IF i > Len(res.Blobs) THEN s
    ELSE ProjectFrom(ProjectStep(s, res.Describe, res.Blobs[i], t), res, i + 1, t)

\* Lines 94-152 as a whole, starting from the maps emptied at lines 74-75
Project(res, t) == ProjectFrom(NoSnap, res, 1, t)

----------------------------------------------------------------------------
(* The searchDir: the root of the search filesystem (search.go) *)

Readme == <<"R", "E", "A", "D", "M", "E", ".", "t", "x", "t">>

\* The names looked up in the searchDir
RootNames == {Readme, NameP, <<"q">>}

\* Line 72: &searchResultDir{fs: n.fs, searchExp: name}, every other field
\* at its zero value
NewDir(name) ==
    [searchExp |-> name, entsNil |-> TRUE, ents |-> EmptyMap,
     modTime |-> EmptyMap, lastReaddir |-> 0, lastNames |-> << >>]

NoRootOut == [op |-> "none", name |-> Empty, err |-> "none", kind |-> "none",
              names |-> << >>, dir |-> NewDir(Empty)]

----------------------------------------------------------------------------
(* The callers of one searchResultDir *)

StartTime == searchSearchInterval   \* time.Now() is long after the zero time
Never     == 0 - 1

LookupNames == {NameP, Rep("a", IdLen)}

NoRef  == [hash |-> Empty, digest |-> Empty]
NoNode == [blobref |-> NoRef, pnodeModTime |-> 0]
NoOut  == [err |-> "pending", names |-> << >>, node |-> NoNode]

Listing(names) == [err |-> "none", names |-> names, node |-> NoNode]
Failure(e)     == [err |-> e, names |-> << >>, node |-> NoNode]
Node(db, mt)   == [err |-> "none", names |-> << >>,
                   node |-> [blobref |-> db.BlobRef, pnodeModTime |-> mt]]

NoBefore == <<EmptyMap, EmptyMap, 0, << >> >>

Get(m, k) == IF k \in DOMAIN m THEN m[k] ELSE 0

\* Fresh with the comparison off by one: not before, instead of after
Fresh_NotBefore == lastReaddir >= now - searchSearchInterval

\* Fresh with the interval on the wrong side: before now plus the interval
Fresh_Before == lastReaddir < now + searchSearchInterval

\* Line 64: n.lastReaddir.After(time.Now().Add(-searchSearchInterval))
Fresh == lastReaddir > now - searchSearchInterval

Refreshing == {d \in Callers : pc[d] = "rd_query"}
Blocked(c) == pc[c] \in {"rd_lock", "lk_lock"}

Init ==
    /\ now = StartTime
    /\ mu = Free
    /\ entsNil = TRUE
    /\ ents = EmptyMap
    /\ modTime = EmptyMap
    /\ lastReaddir = 0
    /\ lastNames = << >>
    /\ pc = [c \in Callers |-> "idle"]
    /\ op = [c \in Callers |-> "none"]
    /\ arg = [c \in Callers |-> Empty]
    /\ out = [c \in Callers |-> NoOut]
    /\ seed = [c \in Callers |-> NoOut]
    /\ nod = [c \in Callers |-> NoNode]
    /\ nq = [c \in Callers |-> 0]
    /\ behind = [c \in Callers |-> "no"]
    /\ lastQ = Never
    /\ lastQok = FALSE
    /\ lastOk = Never
    /\ foreign = [c \in Callers |-> FALSE]
    /\ before = NoBefore
    /\ pres = [Blobs |-> << >>, Describe |-> TRUE]
    /\ pidx = 0
    /\ psnap = NoSnap
    /\ rootOut = NoRootOut

\* time passes
Tick ==
    /\ now + Step <= MaxTime
    /\ now' = now + Step
    /\ UNCHANGED <<mu, cache, callv, hist, projv, rootOut>>

\* the filesystem layer calls ReadDirAll
CallList(c) ==
    /\ pc[c] = "idle"
    /\ pc' = [pc EXCEPT ![c] = "rd_lock"]
    /\ op' = [op EXCEPT ![c] = "List"]
    /\ behind' = [behind EXCEPT ![c] = IF Refreshing # {} THEN "wait" ELSE "no"]
    /\ UNCHANGED <<now, mu, cache, arg, out, seed, nod, nq, foreign, hist, projv, rootOut>>

\* the filesystem layer calls Lookup(name)
CallLookup(c) ==
    /\ pc[c] = "idle"
    /\ \E name \in LookupNames : arg' = [arg EXCEPT ![c] = name]
    /\ pc' = [pc EXCEPT ![c] = "lk_lock"]
    /\ op' = [op EXCEPT ![c] = "Lookup"]
    /\ behind' = [behind EXCEPT ![c] = IF Refreshing # {} THEN "wait" ELSE "no"]
    /\ UNCHANGED <<now, mu, cache, out, seed, nod, nq, foreign, hist, projv, rootOut>>

\* RDA_Lock that does not wait for the lock to be free
RDA_Lock_NoWait(c) ==
    /\ pc[c] = "rd_lock"
    /\ mu' = c
    /\ pc' = [pc EXCEPT ![c] = "rd_check"]
    /\ UNCHANGED <<now, cache, op, arg, out, seed, nod, nq, behind, foreign, hist, projv, rootOut>>

\* ReadDirAll, line 62: n.mu.Lock()
RDA_Lock(c) ==
    /\ pc[c] = "rd_lock"
    /\ mu = Free
    /\ mu' = c
    /\ pc' = [pc EXCEPT ![c] = "rd_check"]
    /\ UNCHANGED <<now, cache, op, arg, out, seed, nod, nq, behind, foreign, hist, projv, rootOut>>

\* ReadDirAll returns r: to the filesystem layer, or to Lookup (line 181),
\* which drops it; the deferred Unlock of line 63 runs.
RDA_Return(c, r) ==
    /\ mu' = Free
    /\ nod' = nod
    /\ IF op[c] = "List"
       THEN /\ pc' = [pc EXCEPT ![c] = "done"]
            /\ out' = [out EXCEPT ![c] = r]
            /\ seed' = seed
       ELSE /\ pc' = [pc EXCEPT ![c] = "lk_relock"]
            /\ seed' = [seed EXCEPT ![c] = r]
            /\ out' = out

\* ReadDirAll, lines 64-70: served from the cache
RDA_Cached(c) ==
    /\ pc[c] = "rd_check"
    /\ Fresh
    /\ RDA_Return(c, Listing(lastNames))
    /\ UNCHANGED <<now, cache, op, arg, nq, behind, foreign, hist, projv, rootOut>>

\* RDA_Search without lines 74-75: n.ents stays as it was, nil or not
RDA_Search_NoMake(c) ==
    /\ pc[c] = "rd_check"
    /\ ~Fresh
    /\ pc' = [pc EXCEPT ![c] = "rd_query"]
    /\ nq' = [nq EXCEPT ![c] = nq[c] + 1]
    /\ behind' = [d \in Callers |->
                    IF d # c /\ Blocked(d) THEN "wait" ELSE behind[d]]
    /\ foreign' = [d \in Callers |-> foreign[d] \/ (d # c /\ pc[d] # "idle")]
    /\ lastQ' = IF op[c] = "List" THEN now ELSE lastQ
    /\ before' = <<ents, modTime, lastReaddir, lastNames>>
    /\ UNCHANGED <<now, mu, cache, op, arg, out, seed, nod,
                   lastQok, lastOk, projv, rootOut>>

\* ReadDirAll, lines 72-88: the maps are emptied and the query is sent
RDA_Search(c) ==
    /\ pc[c] = "rd_check"
    /\ ~Fresh
    /\ entsNil' = FALSE
    /\ ents' = EmptyMap
    /\ modTime' = EmptyMap
    /\ pc' = [pc EXCEPT ![c] = "rd_query"]
    /\ nq' = [nq EXCEPT ![c] = nq[c] + 1]
    /\ behind' = [d \in Callers |->
                    IF d # c /\ Blocked(d) THEN "wait" ELSE behind[d]]
    /\ foreign' = [d \in Callers |-> foreign[d] \/ (d # c /\ pc[d] # "idle")]
    /\ lastQ' = IF op[c] = "List" THEN now ELSE lastQ
    /\ before' = <<ents, modTime, lastReaddir, lastNames>>
    /\ UNCHANGED <<now, mu, lastReaddir, lastNames, op, arg, out, seed, nod,
                   lastQok, lastOk, projv, rootOut>>

Awaited(outcome) ==
    [d \in Callers |-> IF behind[d] = "wait" THEN outcome ELSE behind[d]]

\* RDA_QueryErr that sets lastReaddir as line 154 does after a success
RDA_QueryErr_Stamp(c) ==
    /\ pc[c] = "rd_query"
    /\ RDA_Return(c, Failure("EIO"))
    /\ lastReaddir' = now
    /\ behind' = Awaited("fail")
    /\ lastQok' = IF op[c] = "List" THEN FALSE ELSE lastQok
    /\ before' = NoBefore
    /\ UNCHANGED <<now, entsNil, ents, modTime, lastNames, op, arg, nq,
                   foreign, lastQ, lastOk, projv, rootOut>>

\* RDA_QueryErr that tries again instead of returning the error
RDA_QueryErr_Retry(c) ==
    /\ pc[c] = "rd_query"
    /\ pc' = [pc EXCEPT ![c] = "rd_check"]
    /\ behind' = Awaited("fail")
    /\ lastQok' = IF op[c] = "List" THEN FALSE ELSE lastQok
    /\ before' = NoBefore
    /\ UNCHANGED <<now, mu, cache, op, arg, out, seed, nod, nq, foreign, lastQ,
                   lastOk, projv, rootOut>>

\* ReadDirAll, lines 88-92: the query failed
RDA_QueryErr(c) ==
    /\ pc[c] = "rd_query"
    /\ RDA_Return(c, Failure("EIO"))
    /\ behind' = Awaited("fail")
    /\ lastQok' = IF op[c] = "List" THEN FALSE ELSE lastQok
    /\ before' = NoBefore
    /\ UNCHANGED <<now, cache, op, arg, nq, foreign, lastQ, lastOk, projv, rootOut>>

\* RDA_QueryOk without line 154: lastReaddir is left as it was
RDA_QueryOk_NoStamp(c) ==
    /\ pc[c] = "rd_query"
    /\ \E res \in Responses(Backend, MaxMatches) :
          LET s == Project(res, now)
          IN  /\ ents' = s.ents
              /\ modTime' = s.modTime
              /\ lastNames' = s.lastNames
              /\ RDA_Return(c, Listing(s.lastNames))
    /\ lastReaddir' = lastReaddir
    /\ behind' = Awaited("ok")
    /\ lastQok' = IF op[c] = "List" THEN TRUE ELSE lastQok
    /\ lastOk' = now
    /\ before' = NoBefore
    /\ UNCHANGED <<now, entsNil, op, arg, nq, foreign, lastQ, projv, rootOut>>

\* RDA_QueryOk without line 94: the new names are appended to the old ones
RDA_QueryOk_Accumulate(c) ==
    /\ pc[c] = "rd_query"
    /\ \E res \in Responses(Backend, MaxMatches) :
          LET s == Project(res, now)
          IN  /\ ents' = s.ents
              /\ modTime' = s.modTime
              /\ lastNames' = lastNames \o s.lastNames
              /\ RDA_Return(c, Listing(lastNames \o s.lastNames))
    /\ lastReaddir' = now
    /\ behind' = Awaited("ok")
    /\ lastQok' = IF op[c] = "List" THEN TRUE ELSE lastQok
    /\ lastOk' = now
    /\ before' = NoBefore
    /\ UNCHANGED <<now, entsNil, op, arg, nq, foreign, lastQ, projv, rootOut>>

\* RDA_QueryOk that builds the maps but installs only the names
RDA_QueryOk_NamesOnly(c) ==
    /\ pc[c] = "rd_query"
    /\ \E res \in Responses(Backend, MaxMatches) :
          LET s == Project(res, now)
          IN  /\ ents' = ents
              /\ modTime' = modTime
              /\ lastNames' = s.lastNames
              /\ RDA_Return(c, Listing(s.lastNames))
    /\ lastReaddir' = now
    /\ behind' = Awaited("ok")
    /\ lastQok' = IF op[c] = "List" THEN TRUE ELSE lastQok
    /\ lastOk' = now
    /\ before' = NoBefore
    /\ UNCHANGED <<now, entsNil, op, arg, nq, foreign, lastQ, projv, rootOut>>

\* ReadDirAll, lines 88, 94-155: the query succeeded, its matches are
\* projected and lastReaddir is set
RDA_QueryOk(c) ==
    /\ pc[c] = "rd_query"
    /\ \E res \in Responses(Backend, MaxMatches) :
          LET s == Project(res, now)
          IN  /\ ents' = s.ents
              /\ modTime' = s.modTime
              /\ lastNames' = s.lastNames
              /\ RDA_Return(c, Listing(s.lastNames))
    /\ lastReaddir' = now
    /\ behind' = Awaited("ok")
    /\ lastQok' = IF op[c] = "List" THEN TRUE ELSE lastQok
    /\ lastOk' = now
    /\ before' = NoBefore
    /\ UNCHANGED <<now, entsNil, op, arg, nq, foreign, lastQ, projv, rootOut>>

\* Lookup, line 173: n.mu.Lock()
LK_Lock(c) ==
    /\ pc[c] = "lk_lock"
    /\ mu = Free
    /\ mu' = c
    /\ pc' = [pc EXCEPT ![c] = "lk_check"]
    /\ UNCHANGED <<now, cache, op, arg, out, seed, nod, nq, behind, foreign, hist, projv, rootOut>>

\* LK_Seed that also forces a ReadDirAll when the cache is stale
LK_Seed_Stale(c) ==
    /\ pc[c] = "lk_check"
    /\ (entsNil \/ ~Fresh)
    /\ mu' = Free
    /\ pc' = [pc EXCEPT ![c] = "rd_lock"]
    /\ UNCHANGED <<now, cache, op, arg, out, seed, nod, nq, behind, foreign, hist, projv, rootOut>>

\* LK_Seed without line 180: ReadDirAll is called with the lock held
LK_Seed_Locked(c) ==
    /\ pc[c] = "lk_check"
    /\ entsNil
    /\ mu' = mu
    /\ pc' = [pc EXCEPT ![c] = "rd_lock"]
    /\ UNCHANGED <<now, cache, op, arg, out, seed, nod, nq, behind, foreign, hist, projv, rootOut>>

\* Lookup, lines 177-181: ents is nil, the lock is released and ReadDirAll
\* is called
LK_Seed(c) ==
    /\ pc[c] = "lk_check"
    /\ entsNil
    /\ mu' = Free
    /\ pc' = [pc EXCEPT ![c] = "rd_lock"]
    /\ UNCHANGED <<now, cache, op, arg, out, seed, nod, nq, behind, foreign, hist, projv, rootOut>>

\* Lookup, line 182: n.mu.Lock() after the forced ReadDirAll
LK_Relock(c) ==
    /\ pc[c] = "lk_relock"
    /\ mu = Free
    /\ mu' = c
    /\ pc' = [pc EXCEPT ![c] = "lk_read"]
    /\ UNCHANGED <<now, cache, op, arg, out, seed, nod, nq, behind, foreign, hist, projv, rootOut>>

\* Lookup, lines 184-197: the name is read from n.ents; when it is missing
\* ENOENT is returned and the deferred Unlock of line 174 runs; otherwise
\* the node is built and fetchSchemaMeta is called with the lock held
LK_Read(c) ==
    /\ \/ pc[c] = "lk_check" /\ ~entsNil
       \/ pc[c] = "lk_read"
    /\ IF arg[c] \in DOMAIN ents
       THEN /\ nod' = [nod EXCEPT ![c] =
                         Node(ents[arg[c]], Get(modTime, arg[c])).node]
            /\ pc' = [pc EXCEPT ![c] = "lk_fetch"]
            /\ UNCHANGED <<mu, out>>
       ELSE /\ out' = [out EXCEPT ![c] = Failure("ENOENT")]
            /\ mu' = Free
            /\ pc' = [pc EXCEPT ![c] = "done"]
            /\ nod' = nod
    /\ UNCHANGED <<now, cache, op, arg, seed, nq, behind, foreign, hist, projv, rootOut>>

\* Lookup, lines 197-204: fetchSchemaMeta has returned, with the blob or
\* with an error, which is logged and nothing more; the node is returned
\* and the deferred Unlock of line 174 runs
LK_Fetched(c) ==
    /\ pc[c] = "lk_fetch"
    /\ out' = [out EXCEPT ![c] = [err |-> "none", names |-> << >>, node |-> nod[c]]]
    /\ mu' = Free
    /\ pc' = [pc EXCEPT ![c] = "done"]
    /\ UNCHANGED <<now, cache, op, arg, seed, nod, nq, behind, foreign, hist, projv, rootOut>>

\* the filesystem layer has its answer
Return(c) ==
    /\ pc[c] = "done"
    /\ pc' = [pc EXCEPT ![c] = "idle"]
    /\ op' = [op EXCEPT ![c] = "none"]
    /\ arg' = [arg EXCEPT ![c] = Empty]
    /\ out' = [out EXCEPT ![c] = NoOut]
    /\ seed' = [seed EXCEPT ![c] = NoOut]
    /\ nod' = [nod EXCEPT ![c] = NoNode]
    /\ nq' = [nq EXCEPT ![c] = 0]
    /\ behind' = [behind EXCEPT ![c] = "no"]
    /\ foreign' = [foreign EXCEPT ![c] = FALSE]
    /\ UNCHANGED <<now, mu, cache, hist, projv, rootOut>>

Next ==
    \/ Tick
    \/ \E c \in Callers :
          \/ CallList(c)
          \/ CallLookup(c)
          \/ RDA_Lock(c)
          \/ RDA_Cached(c)
          \/ RDA_Search(c)
          \/ RDA_QueryErr(c)
          \/ RDA_QueryOk(c)
          \/ LK_Lock(c)
          \/ LK_Seed(c)
          \/ LK_Relock(c)
          \/ LK_Read(c)
          \/ LK_Fetched(c)
          \/ Return(c)

Spec == Init /\ [][Next]_vars

\* a whole lifetime of the cache passes
Expire ==
    /\ now + searchSearchInterval <= MaxTime
    /\ now' = now + searchSearchInterval
    /\ UNCHANGED <<mu, cache, callv, hist, projv, rootOut>>

\* The callers with a clock that moves by whole lifetimes of the cache
NextFair ==
    \/ Expire
    \/ \E c \in Callers :
          \/ CallList(c)
          \/ CallLookup(c)
          \/ RDA_Lock(c)
          \/ RDA_Cached(c)
          \/ RDA_Search(c)
          \/ RDA_QueryErr(c)
          \/ RDA_QueryOk(c)
          \/ LK_Lock(c)
          \/ LK_Seed(c)
          \/ LK_Relock(c)
          \/ LK_Read(c)
          \/ LK_Fetched(c)
          \/ Return(c)

\* A call that can go on does: the goroutine that holds the lock runs on,
\* every search query returns, with a result or with an error, and a
\* goroutine blocked in n.mu.Lock() gets the lock when it is released again
\* and again.  Nothing is assumed of fetchSchemaMeta (line 197).
Progress ==
    \A c \in Callers :
        /\ SF_vars(RDA_Lock(c) \/ LK_Lock(c) \/ LK_Relock(c))
        /\ WF_vars(\/ RDA_Cached(c) \/ RDA_Search(c)
                   \/ RDA_QueryErr(c) \/ RDA_QueryOk(c)
                   \/ LK_Seed(c) \/ LK_Read(c))

SpecFair == Init /\ [][NextFair]_vars /\ Progress

----------------------------------------------------------------------------
(* The projection loop on its own, one match per step, over every search   *)
(* result of up to MaxBlobs matches                                        *)

InitProj ==
    /\ now = StartTime
    /\ mu = Free
    /\ entsNil = TRUE
    /\ ents = EmptyMap
    /\ modTime = EmptyMap
    /\ lastReaddir = 0
    /\ lastNames = << >>
    /\ pc = [c \in Callers |-> "idle"]
    /\ op = [c \in Callers |-> "none"]
    /\ arg = [c \in Callers |-> Empty]
    /\ out = [c \in Callers |-> NoOut]
    /\ seed = [c \in Callers |-> NoOut]
    /\ nod = [c \in Callers |-> NoNode]
    /\ nq = [c \in Callers |-> 0]
    /\ behind = [c \in Callers |-> "no"]
    /\ lastQ = Never
    /\ lastQok = FALSE
    /\ lastOk = Never
    /\ foreign = [c \in Callers |-> FALSE]
    /\ before = NoBefore
    /\ pres \in Responses(Matches, MaxBlobs)
    /\ pidx = 0
    /\ psnap = NoSnap
    /\ rootOut = NoRootOut

\* ReadDirAll, lines 95-152: one iteration of the loop over res.Blobs
ProjLoop ==
    /\ pidx < Len(pres.Blobs)
    /\ psnap' = ProjectStep(psnap, pres.Describe, pres.Blobs[pidx + 1], now)
    /\ pidx' = pidx + 1
    /\ UNCHANGED <<now, mu, cache, callv, hist, pres, rootOut>>

NextProj == ProjLoop

SpecProj == InitProj /\ [][NextProj]_vars

----------------------------------------------------------------------------
(* The searchDir beside a searchResultDir that a successful ReadDirAll has  *)
(* filled, or that is still as Lookup of the searchDir made it              *)

InitRoot ==
    /\ now = StartTime
    /\ mu = Free
    /\ \E filled \in BOOLEAN, res \in Responses(Matches, MaxBlobs) :
          LET s == IF filled THEN Project(res, StartTime) ELSE NoSnap
          IN  /\ entsNil = ~filled
              /\ ents = s.ents
              /\ modTime = s.modTime
              /\ lastNames = s.lastNames
              /\ lastReaddir = IF filled THEN StartTime ELSE 0
              /\ lastOk = IF filled THEN StartTime ELSE Never
    /\ pc = [c \in Callers |-> "idle"]
    /\ op = [c \in Callers |-> "none"]
    /\ arg = [c \in Callers |-> Empty]
    /\ out = [c \in Callers |-> NoOut]
    /\ seed = [c \in Callers |-> NoOut]
    /\ nod = [c \in Callers |-> NoNode]
    /\ nq = [c \in Callers |-> 0]
    /\ behind = [c \in Callers |-> "no"]
    /\ lastQ = Never
    /\ lastQok = FALSE
    /\ foreign = [c \in Callers |-> FALSE]
    /\ before = NoBefore
    /\ pres = [Blobs |-> << >>, Describe |-> TRUE]
    /\ pidx = 0
    /\ psnap = NoSnap
    /\ rootOut = NoRootOut

\* searchDir.ReadDirAll, lines 52-56
SD_ReadDirAll ==
    /\ rootOut' = [op |-> "List", name |-> Empty, err |-> "none",
                   kind |-> "entries", names |-> <<Readme>>,
                   dir |-> NewDir(Empty)]
    /\ UNCHANGED <<now, mu, cache, callv, hist, projv>>

\* SD_Lookup without lines 69-71: README.txt is taken for a search too
SD_Lookup_NoReadme ==
    /\ \E name \in RootNames :
          rootOut' = [op |-> "Lookup", name |-> name, err |-> "none",
                      kind |-> "dir", names |-> << >>, dir |-> NewDir(name)]
    /\ UNCHANGED <<now, mu, cache, callv, hist, projv>>

\* searchDir.Lookup, lines 68-73
SD_Lookup ==
    /\ \E name \in RootNames :
          rootOut' = IF name = Readme
                     THEN [op |-> "Lookup", name |-> name, err |-> "none",
                           kind |-> "readme", names |-> << >>,
                           dir |-> NewDir(Empty)]
                     ELSE [op |-> "Lookup", name |-> name, err |-> "none",
                           kind |-> "dir", names |-> << >>,
                           dir |-> NewDir(name)]
    /\ UNCHANGED <<now, mu, cache, callv, hist, projv>>

NextRoot == SD_ReadDirAll \/ SD_Lookup

SpecRoot == InitRoot /\ [][NextRoot]_vars

----------------------------------------------------------------------------
(* Properties *)

Stepped(c) == pc'[c] # pc[c]
Keys(s)    == Range(s)
NoDup(s)   == Cardinality(Range(s)) = Len(s)

\* The value ReadDirAll gave back: to the filesystem layer for List, to
\* Lookup for the forced ReadDirAll
Returned(c) == IF op[c] = "List" THEN out[c] ELSE seed[c]

\* C1: when the backend search fails during a refresh, entries, modTimes,
\* orderedNames and lastRefresh are what they were before the call, so every
\* name that resolved before the failed refresh still resolves to the same
\* item.
C1_FailedRefreshKeepsCache ==
    [][\A c \in Callers :
          (pc[c] = "rd_query" /\ Stepped(c) /\ Returned(c)'.err = "EIO")
              => <<ents', modTime', lastReaddir', lastNames'>> = before]_vars

\* C3: whenever nobody holds the lock and entries is non-empty, entries,
\* modTimes and orderedNames have the same key set and orderedNames holds no
\* name twice.
C3_SameKeys ==
    (mu = Free /\ DOMAIN ents # {}) =>
        /\ DOMAIN ents = DOMAIN modTime
        /\ DOMAIN ents = Keys(lastNames)
        /\ NoDup(lastNames)

C3_Witness ==
    /\ mu = Free
    /\ Cardinality(DOMAIN ents) = 2
    /\ lastNames = <<NameP, Rep("a", IdLen) \o DotJpg>>
    /\ lastOk = lastReaddir

\* A caller is about to read the cache: ReadDirAll serving from it, or
\* Lookup reading ents and modTime
Reading(c) ==
    \/ pc[c] = "rd_check" /\ Fresh
    \/ pc[c] = "lk_check" /\ ~entsNil
    \/ pc[c] = "lk_read"

\* C4: whenever a caller reads the cache, entries, modTimes and orderedNames
\* are one snapshot, the work of a single refresh: they name the same
\* entries.
C4_OneSnapshot ==
    \A c \in Callers :
        Reading(c) => /\ DOMAIN ents = Keys(lastNames)
                      /\ DOMAIN modTime = Keys(lastNames)

\* The callers inside a section guarded by n.mu
Holding ==
    {c \in Callers :
        pc[c] \in {"rd_check", "rd_query", "lk_check", "lk_read", "lk_fetch"}}

\* C5: at most one backend search is in flight; the query is issued only by
\* the caller that holds the lock, and no two callers hold it at once.
C5_OneSearch ==
    /\ Cardinality(Refreshing) <= 1
    /\ Cardinality(Holding) <= 1
    /\ \A c \in Holding : mu = c

C5_Witness ==
    \E c \in Callers, d \in Callers :
        /\ pc[c] = "rd_query" /\ mu = c
        /\ pc[d] = "rd_lock" /\ op[d] = "Lookup"

\* C2 as claimed: no two List calls that read the clock within one TTL
\* window of each other both issue a backend query.
C2_OneQueryPerWindow ==
    [][\A c \in Callers :
          (op[c] = "List" /\ pc[c] = "rd_check" /\ pc'[c] = "rd_query")
              => (lastQ = Never \/ now - lastQ >= searchSearchInterval)]_vars

\* C2, amended: a List call within the TTL of the last successful refresh
\* issues no query; one at or after it issues exactly one; and two List calls
\* within one TTL window both query only when the first one's query failed.
C2_OneQueryPerWindowUnlessFailed ==
    /\ [](\A c \in Callers : nq[c] <= 1)
    /\ [][\A c \in Callers :
            (op[c] = "List" /\ pc[c] = "rd_check" /\ Stepped(c)) =>
                IF lastOk # Never /\ now - lastOk < searchSearchInterval
                THEN /\ nq'[c] = nq[c]
                     /\ pc'[c] = "done"
                     /\ out'[c] = Listing(lastNames)
                ELSE /\ nq'[c] = nq[c] + 1
                     /\ pc'[c] = "rd_query"
                     /\ \/ lastQ = Never
                        \/ now - lastQ >= searchSearchInterval
                        \/ ~lastQok]_vars

C2_Witness ==
    \E c \in Callers, d \in Callers :
        /\ op[c] = "List" /\ pc[c] = "done" /\ nq[c] = 1 /\ out[c].err = "none"
        /\ op[d] = "List" /\ pc[d] = "done" /\ nq[d] = 0 /\ out[d].err = "none"
        /\ Len(out[d].names) = 2
        /\ now = lastReaddir + Step

\* C6 as claimed: a caller that waited for another caller's refresh issues
\* no backend search of its own.
C6_WaiterNeverSearches ==
    \A c \in Callers : behind[c] \in {"ok", "fail"} => nq[c] = 0

\* C6, amended: a caller that arrives during another caller's refresh is
\* blocked until it ends; if that refresh succeeded and the caller reads
\* the clock less than the TTL after it ended, the caller serves the
\* installed snapshot and issues no backend search.
C6_WaiterServesInstalled ==
    /\ [](\A c \in Callers :
            behind[c] = "wait" => Blocked(c) /\ mu \notin {Free, c})
    /\ [][\A c \in Callers :
            (/\ behind[c] = "ok"
             /\ pc[c] \in {"rd_check", "lk_check"}
             /\ Stepped(c)
             /\ now - lastOk < searchSearchInterval) =>
                /\ nq'[c] = 0
                /\ UNCHANGED cache
                /\ pc[c] = "rd_check" => Returned(c)' = Listing(lastNames)
                /\ pc[c] = "lk_check" => pc'[c] \in {"lk_fetch", "done"}]_vars

C6_Witness ==
    \E c \in Callers :
        /\ behind[c] = "ok"
        /\ op[c] = "List" /\ pc[c] = "done"
        /\ nq[c] = 0
        /\ out[c] = Listing(lastNames)
        /\ lastNames # << >>

\* C7 as claimed: a Lookup that finds ents unset, no List having searched
\* yet, issues exactly one backend query and then succeeds for every name
\* in the listing its forced ReadDirAll returned.
C7_SeedAlwaysQueries ==
    \A c \in Callers :
        (op[c] = "Lookup" /\ pc[c] = "done" /\ seed[c] # NoOut /\ lastQ = Never) =>
            /\ nq[c] = 1
            /\ (seed[c].err = "none" /\ arg[c] \in Keys(seed[c].names)) =>
                  out[c].err = "none"

\* C7: a Lookup that finds ents unset, with no refresh by any other caller
\* during the call, issues exactly one backend query and then succeeds for
\* every name in the listing that query produced.
C7_SeedThenResolve ==
    \A c \in Callers :
        (op[c] = "Lookup" /\ pc[c] = "done" /\ seed[c] # NoOut /\ ~foreign[c]) =>
            /\ nq[c] = 1
            /\ (seed[c].err = "none" /\ arg[c] \in Keys(seed[c].names)) =>
                  /\ out[c].err = "none"
                  /\ out[c].node.blobref # NoRef

C7_Witness ==
    \E c \in Callers :
        /\ op[c] = "Lookup" /\ pc[c] = "done" /\ ~foreign[c]
        /\ seed[c].err = "none" /\ Len(seed[c].names) = 2
        /\ arg[c] = seed[c].names[2]
        /\ nq[c] = 1
        /\ out[c].err = "none"

\* C8: with ents set, Lookup of a name that is not a key of ents fails with
\* ENOENT, issues no backend query and changes nothing in the cache, stale
\* or not.
C8_MissIsNotFound ==
    [][\A c \in Callers :
          (/\ pc[c] = "lk_check"
           /\ ~entsNil
           /\ arg[c] \notin DOMAIN ents
           /\ Stepped(c)) =>
                /\ pc'[c] = "done"
                /\ out'[c] = Failure("ENOENT")
                /\ nq'[c] = 0
                /\ UNCHANGED cache]_vars

C8_Witness ==
    \E c \in Callers :
        /\ op[c] = "Lookup" /\ pc[c] = "done"
        /\ seed[c] = NoOut
        /\ out[c].err = "ENOENT"
        /\ nq[c] = 0
        /\ DOMAIN ents # {} /\ arg[c] \notin DOMAIN ents
        /\ ~Fresh

\* C9: an operation whose backend search failed returns EIO to its caller,
\* List and Lookup alike.
C9_FailedSearchIsEIO ==
    \A c \in Callers :
        (pc[c] = "done" /\ Returned(c).err = "EIO") => out[c].err = "EIO"

\* C11 as claimed: whenever List or Lookup answers from the cache, the
\* snapshot was installed less than the TTL before.
C11_NeverStale ==
    [][\A c \in Callers :
          (Stepped(c) /\ pc'[c] = "done" /\ out'[c].err = "none")
              => (lastOk' # Never /\ now - lastOk' < searchSearchInterval)]_vars

\* C11, amended: List answers only from a snapshot installed less than the
\* TTL before, recomputing an older one first; Lookup does not test the
\* TTL and answers from the snapshot that is current, whatever its age.
C11_OnlyListTestsTTL ==
    [][\A c \in Callers :
          (Stepped(c) /\ pc'[c] = "done") =>
              IF op[c] = "List"
              THEN out'[c].err = "none" =>
                      /\ lastOk' # Never
                      /\ now - lastOk' < searchSearchInterval
                      /\ out'[c] = Listing(lastNames')
              ELSE /\ UNCHANGED cache
                   /\ out'[c] = IF arg[c] \in DOMAIN ents
                                THEN Node(ents[arg[c]], Get(modTime, arg[c]))
                                ELSE Failure("ENOENT")]_vars

C11_Witness ==
    \E c \in Callers, d \in Callers :
        /\ op[c] = "List" /\ pc[c] = "done" /\ nq[c] = 1
        /\ out[c].err = "none" /\ out[c].names # << >>
        /\ op[d] = "Lookup" /\ pc[d] = "done" /\ out[d].err = "none"
        /\ out[d].node.pnodeModTime >= StartTime
        /\ lastReaddir >= out[d].node.pnodeModTime + searchSearchInterval

\* the lock is free whenever no call is in progress, and no caller waits for
\* a lock it holds itself
LockSafe ==
    /\ (\A c \in Callers : pc[c] \in {"idle", "done"}) => mu = Free
    /\ \A c \in Callers : pc[c] \in {"rd_lock", "lk_lock", "lk_relock"} => mu # c

\* the lock is released only by the caller that holds it
UnlockOwn ==
    (mu' = Free /\ mu # Free) =>
        \E c \in Callers : mu = c /\ Stepped(c) /\ c \in Holding

\* C13 as claimed, under SpecFair: with search queries that return, every
\* call returns; the lock is free whenever no call is in progress, no caller
\* waits for a lock it holds itself, and the lock is released only by the
\* caller that holds it.
C13_CallsReturn ==
    /\ []LockSafe
    /\ [][UnlockOwn]_vars
    /\ \A c \in Callers : (pc[c] # "idle") ~> (pc[c] = "done")

\* C13, under SpecFair: the same, for the behaviours in which no LookupName
\* waits for fetchSchemaMeta for ever.
C13_CallsReturnIfFetched ==
    /\ []LockSafe
    /\ [][UnlockOwn]_vars
    /\ (\A d \in Callers : []<>(pc[d] # "lk_fetch")) =>
          \A c \in Callers : (pc[c] # "idle") ~> (pc[c] = "done")

C13_Witness ==
    \E c \in Callers, d \in Callers :
        /\ c # d
        /\ pc[c] = "done" /\ op[c] = "Lookup" /\ seed[c] # NoOut
        /\ out[c].err = "none" /\ out[c].node.blobref # NoRef
        /\ pc[d] = "done" /\ op[d] = "List"
        /\ mu = Free

\* C14: a successful List returns exactly orderedNames as it stands when the
\* call returns, from the cache or after a search, every returned name is a
\* key of entries at that moment, and a LookupName of a returned name
\* succeeds as long as no other search has begun since the List was called.
C14_ListedNamesResolve ==
    [][\A c \in Callers :
          (Stepped(c) /\ pc'[c] = "done") =>
              /\ (op[c] = "List" /\ out'[c].err = "none") =>
                    /\ out'[c] = Listing(lastNames')
                    /\ Range(out'[c].names) \subseteq DOMAIN ents'
              /\ op[c] = "Lookup" =>
                    \A d \in Callers \ {c} :
                        (/\ pc[d] = "done" /\ op[d] = "List"
                         /\ out[d].err = "none" /\ ~foreign[d]
                         /\ arg[c] \in Range(out[d].names))
                            => /\ out'[c].err = "none"
                               /\ out'[c].node.pnodeModTime = modTime'[arg[c]]]_vars

C14_Witness ==
    \E c \in Callers, d \in Callers :
        /\ pc[d] = "done" /\ op[d] = "List" /\ out[d].err = "none"
        /\ nq[d] = 0 /\ ~foreign[d] /\ Len(out[d].names) = MaxMatches
        /\ pc[c] = "done" /\ op[c] = "Lookup" /\ out[c].err = "none"
        /\ arg[c] \in Range(out[d].names)

\* C17: one call of List or LookupName sends at most one query to the
\* backend, and once it has sent one it only waits for the answer and
\* returns.
C17_NoRetry ==
    \A c \in Callers :
        /\ nq[c] <= 1
        /\ nq[c] = 1 =>
              pc[c] \in {"rd_query", "lk_relock", "lk_read", "lk_fetch", "done"}
        /\ (pc[c] = "done" /\ Returned(c).err = "EIO") => nq[c] = 1

C17_Witness ==
    \E c \in Callers, d \in Callers :
        /\ pc[c] = "done" /\ op[c] = "List" /\ out[c].err = "EIO" /\ nq[c] = 1
        /\ pc[d] = "done" /\ op[d] = "Lookup" /\ seed[d].err = "EIO" /\ nq[d] = 1

\* C18 as claimed: lastRefresh changes only when a search returns with a
\* result, and a List that finds the latest List search failed sends a new
\* query instead of serving from the cache.
C18_NextListSearches ==
    /\ [][lastReaddir' # lastReaddir =>
            \E c \in Callers :
                /\ pc[c] = "rd_query" /\ pc'[c] # "rd_query"
                /\ (IF op[c] = "List" THEN out'[c] ELSE seed'[c]).err = "none"]_vars
    /\ [][\A c \in Callers :
            (/\ pc[c] = "rd_check" /\ Stepped(c) /\ op[c] = "List"
             /\ lastQ # Never /\ ~lastQok)
                => pc'[c] = "rd_query"]_vars

\* C18: lastRefresh changes only when a search returns with a result, and
\* then to the time of that return; a List that finds the latest List search
\* failed, with no successful search since, sends a new query whatever the
\* time is.
C18_FailureNotCached ==
    /\ [][lastReaddir' # lastReaddir =>
            \E c \in Callers :
                /\ pc[c] = "rd_query" /\ pc'[c] # "rd_query"
                /\ (IF op[c] = "List" THEN out'[c] ELSE seed'[c]).err = "none"
                /\ lastReaddir' = now]_vars
    /\ [][\A c \in Callers :
            (/\ pc[c] = "rd_check" /\ Stepped(c) /\ op[c] = "List"
             /\ lastQ # Never /\ ~lastQok /\ lastOk < lastQ)
                => pc'[c] = "rd_query" /\ nq'[c] = 1]_vars

C18_Witness ==
    \E c \in Callers, d \in Callers :
        /\ now = StartTime /\ lastReaddir = 0
        /\ pc[c] = "done" /\ op[c] = "List" /\ out[c].err = "EIO" /\ foreign[c]
        /\ pc[d] = "done" /\ op[d] = "List" /\ out[d].err = "EIO" /\ ~foreign[d]
        /\ nq[d] = 1

\* entries is set by the time a query is sent and is never unset again; a
\* LookupName that finds it set answers from it without a query
SetForGood ==
    /\ entsNil' => entsNil
    /\ \A c \in Callers :
          /\ pc'[c] = "rd_query" => ~entsNil'
          /\ (pc[c] = "lk_check" /\ Stepped(c) /\ ~entsNil) =>
                /\ nq'[c] = 0
                /\ IF arg[c] \in DOMAIN ents
                   THEN pc'[c] = "lk_fetch"
                   ELSE pc'[c] = "done" /\ out'[c].err = "ENOENT"
          /\ (pc[c] = "lk_fetch" /\ Stepped(c)) =>
                pc'[c] = "done" /\ nq'[c] = nq[c] /\ out'[c].err = "none"

\* C19 as claimed: entries, once a refresh has been attempted, stays set and
\* later LookupNames send no query; after a LookupName whose own search
\* failed, a LookupName that follows with no List search in between
\* returns NotFound.
C19_NotFoundAfterFailedSeed ==
    [][/\ SetForGood
       /\ \A c \in Callers, d \in Callers :
             (/\ pc[c] = "lk_check" /\ Stepped(c) /\ ~entsNil
              /\ pc[d] = "done" /\ op[d] = "Lookup" /\ seed[d].err = "EIO"
              /\ lastQ = Never)
                 => pc'[c] = "done" /\ out'[c].err = "ENOENT"]_vars

\* C19: entries, once a refresh has been attempted, stays set and later
\* LookupNames send no query; after a LookupName whose own search failed, a
\* LookupName that follows returns NotFound as long as no search has
\* succeeded.
C19_SetForGood ==
    [][/\ SetForGood
       /\ \A c \in Callers, d \in Callers :
             (/\ pc[c] = "lk_check" /\ Stepped(c) /\ ~entsNil
              /\ pc[d] = "done" /\ op[d] = "Lookup" /\ seed[d].err = "EIO"
              /\ (lastOk = Never \/ ~foreign[d]))
                 => pc'[c] = "done" /\ out'[c].err = "ENOENT"]_vars

C19_Witness ==
    \E c \in Callers, d \in Callers :
        /\ pc[d] = "done" /\ op[d] = "Lookup" /\ seed[d].err = "EIO"
        /\ out[d].err = "ENOENT" /\ nq[d] = 1
        /\ pc[c] = "done" /\ op[c] = "Lookup" /\ seed[c] = NoOut
        /\ out[c].err = "ENOENT" /\ nq[c] = 0
        /\ lastOk = Never /\ ~entsNil

----------------------------------------------------------------------------
(* Properties of the projection loop, under SpecProj *)

\* C10: within one pass a binding once made is never overwritten and a name
\* is listed once; a match whose declared name is empty or taken is
\* recorded under its fallback name, or dropped when that is taken too.
C10_NoRebinding ==
    [][pidx' = pidx + 1 =>
         LET ri   == pres.Blobs[pidx + 1]
             e    == psnap.ents
             e2   == psnap'.ents
             decl == DeclaredName(ri.cc)
             fb   == FallbackName(ri.cc, decl)
         IN  /\ \A n \in DOMAIN e : n \in DOMAIN e2 /\ e2[n] = e[n]
             /\ DOMAIN e2 = Keys(psnap'.lastNames)
             /\ NoDup(psnap'.lastNames)
             /\ Usable(pres.Describe, ri) =>
                  IF decl # Empty /\ decl \notin DOMAIN e
                  THEN e2 = Put(e, decl, ri.cc)
                  ELSE IF fb \notin DOMAIN e
                  THEN e2 = Put(e, fb, ri.cc)
                  ELSE e2 = e]_vars

C10_Witness ==
    /\ pidx = 3
    /\ pres.Blobs = <<Good(ItC), Good(ItA), Good(ItD)>>
    /\ psnap.lastNames = <<Rep("a", IdLen), NameP>>
    /\ psnap.ents[Rep("a", IdLen)] = ItC


----------------------------------------------------------------------------
(* Properties of the searchDir, under SpecRoot *)

\* C12: the operations of the searchDir never fail and never reach the
\* backend: ReadDirAll returns the one entry README.txt, Lookup of
\* README.txt the static file, Lookup of any other name a new
\* searchResultDir for that name with ents unset, lastNames empty and
\* lastReaddir zero; no searchResultDir that exists is changed.
C12_RootIsStatic ==
    [][rootOut' # rootOut =>
         /\ UNCHANGED <<now, mu, cache, callv, hist>>
         /\ rootOut'.err = "none"
         /\ rootOut'.op = "List" =>
               rootOut'.kind = "entries" /\ rootOut'.names = <<Readme>>
         /\ (rootOut'.op = "Lookup" /\ rootOut'.name = Readme) =>
               rootOut'.kind = "readme"
         /\ (rootOut'.op = "Lookup" /\ rootOut'.name # Readme) =>
               /\ rootOut'.kind = "dir"
               /\ rootOut'.dir.searchExp = rootOut'.name
               /\ rootOut'.dir.entsNil
               /\ rootOut'.dir.lastNames = << >>
               /\ rootOut'.dir.lastReaddir = 0]_vars

C12_Witness ==
    /\ rootOut.op = "Lookup" /\ rootOut.kind = "dir" /\ rootOut.name = NameP
    /\ ~entsNil /\ NameP \in DOMAIN ents
    /\ lastReaddir = StartTime


\* A match is recorded under another name than the one it declares
Renamed ==
    /\ pidx' = pidx + 1
    /\ psnap' # psnap
    /\ Usable(pres.Describe, pres.Blobs[pidx + 1])
    /\ LET decl == DeclaredName(pres.Blobs[pidx + 1].cc)
       IN  decl = Empty \/ decl \in DOMAIN psnap.ents

\* C15 as claimed: a match whose candidate name is empty or claimed is
\* recorded under the first 10 characters of its digest followed by ".jpg"
\* when the candidate has no extension and the item is a file whose MIME
\* type ends in image/jpeg, and by nothing otherwise.
C15_ExtEmptyOrJpg ==
    [][Renamed =>
         LET cc   == pres.Blobs[pidx + 1].cc
             decl == DeclaredName(cc)
             id   == SubSeq(cc.BlobRef.digest, 1, IdLen)
             ext  == IF Ext(decl) = Empty /\ ~cc.File.nil
                         /\ HasSuffix(cc.File.MIMEType, Jpeg)
                     THEN DotJpg ELSE Empty
         IN  /\ psnap'.lastNames = Append(psnap.lastNames, id \o ext)
             /\ psnap'.ents[id \o ext] = cc]_vars

\* C15: a match whose candidate name is empty or claimed is recorded under
\* the first 10 characters of its digest followed by the extension of the
\* candidate name, or by ".jpg" when the candidate has no extension and the
\* item is a file whose MIME type ends in image/jpeg.
C15_ExtOfCandidate ==
    [][Renamed =>
         LET cc   == pres.Blobs[pidx + 1].cc
             decl == DeclaredName(cc)
             id   == SubSeq(cc.BlobRef.digest, 1, IdLen)
             ext  == IF Ext(decl) = Empty /\ ~cc.File.nil
                         /\ HasSuffix(cc.File.MIMEType, Jpeg)
                     THEN DotJpg ELSE Ext(decl)
         IN  /\ psnap'.lastNames = Append(psnap.lastNames, id \o ext)
             /\ psnap'.ents[id \o ext] = cc]_vars

C15_Witness ==
    /\ pidx = 2
    /\ pres.Blobs = <<Good(ItA), Good(ItE)>>
    /\ psnap.lastNames = <<NameP, Rep("b", IdLen) \o DotJpg>>
    /\ psnap.ents[NameP] = ItA
    /\ psnap.ents[Rep("b", IdLen) \o DotJpg] = ItE


\* C16: the loop takes every match of the result in order and never stops
\* early: a match without description data, without a described content
\* blob, or whose content is neither file nor directory leaves entries,
\* modTimes and orderedNames as they are; any other match appends its
\* resolved name to orderedNames, unless it is dropped for a taken fallback
\* name; nothing else is ever appended.
C16_SkipsMalformed ==
    /\ [](pidx < Len(pres.Blobs) => ENABLED ProjLoop)
    /\ [][pidx' = pidx + 1 =>
            LET ri   == pres.Blobs[pidx + 1]
                e    == psnap.ents
                decl == DeclaredName(ri.cc)
                fb   == FallbackName(ri.cc, decl)
                malformed ==
                    \/ ~pres.Describe
                    \/ ~ri.meta \/ ~ri.permanode
                    \/ ~ri.content \/ ri.ccNil
                    \/ (ri.cc.File.nil /\ ri.cc.Dir.nil)
            IN  IF malformed THEN psnap' = psnap
                ELSE IF decl # Empty /\ decl \notin DOMAIN e
                THEN psnap'.lastNames = Append(psnap.lastNames, decl)
                ELSE IF fb \notin DOMAIN e
                THEN psnap'.lastNames = Append(psnap.lastNames, fb)
                ELSE psnap' = psnap]_vars

C16_Witness ==
    /\ pidx = MaxBlobs
    /\ pres.Describe
    /\ pres.Blobs = <<Good(ItX), Good(ItB), Match(TRUE, TRUE, FALSE, TRUE, ItX)>>
    /\ psnap.lastNames = <<NamePG>>

====
